---- MODULE Spec2Model ----
(***************************************************************************)
(* Model of the execution-slicing engine: execute_twap (src/src/executor.py)*)
(* and execute_vwap (src/src/execution_engine/strategies/vwap.py) replaying *)
(* an Order over a frame of daily bars.                                     *)
(*                                                                          *)
(* Numbers.  The program computes in floats.  A float is modelled as an     *)
(* exact rational <<n, d>> in lowest terms with d > 0; <<0, 0>> is NaN and  *)
(* <<1, 0>>, <<-1, 0>> are the infinities.  Rounding of the float           *)
(* operations is not modelled: sums and products are the exact ones.        *)
(*                                                                          *)
(* Each call is modelled step by step: the code before the loop, one step   *)
(* per loop iteration, and the code after the loop.  A call ends in         *)
(* pc = "returned" (result holds the ExecutionResult) or pc = "raised"      *)
(* (error names the exception, result is empty).                            *)
(***************************************************************************)
EXTENDS Integers, Sequences, FiniteSets, TLC

(* ---------------- bounds of the model ---------------- *)
MaxBars == 2
MaxSize == 2

(* ---------------- float arithmetic ---------------- *)
Abs(x) == IF x < 0 THEN -x ELSE x

Sign(x) == IF x < 0 THEN -1 ELSE IF x > 0 THEN 1 ELSE 0

RECURSIVE GCD(_, _)
GCD(a, b) == IF b = 0 THEN a ELSE GCD(b, a % b)

\* the float with value n / d, d # 0
Norm(n, d) ==
    LET g == GCD(Abs(n), Abs(d))
    IN  IF d < 0 THEN <<(0 - n) \div g, (0 - d) \div g>> ELSE <<n \div g, d \div g>>

R(k) == <<k, 1>>

NaN == <<0, 0>>

IsNaN(x) == x = NaN

IsFinite(x) == x[2] # 0

FAdd(x, y) ==
    IF IsNaN(x) \/ IsNaN(y) THEN NaN
    ELSE IF ~IsFinite(x) THEN (IF ~IsFinite(y) /\ y # x THEN NaN ELSE x)
    ELSE IF ~IsFinite(y) THEN y
    ELSE Norm(x[1] * y[2] + y[1] * x[2], x[2] * y[2])

FNeg(x) == <<0 - x[1], x[2]>>

FSub(x, y) == FAdd(x, FNeg(y))

FMul(x, y) ==
    IF IsNaN(x) \/ IsNaN(y) THEN NaN
    ELSE IF IsFinite(x) /\ IsFinite(y) THEN Norm(x[1] * y[1], x[2] * y[2])
    ELSE IF x[1] = 0 \/ y[1] = 0 THEN NaN
    ELSE <<Sign(x[1]) * Sign(y[1]), 0>>

\* numpy.float64 division: x / 0 is nan or +-inf (a RuntimeWarning, no exception)
NpDiv(x, y) ==
    IF IsNaN(x) \/ IsNaN(y) THEN NaN
    ELSE IF ~IsFinite(y) THEN (IF IsFinite(x) THEN R(0) ELSE NaN)
    ELSE IF y[1] = 0 THEN (IF x[1] = 0 THEN NaN ELSE <<Sign(x[1]), 0>>)
    ELSE IF ~IsFinite(x) THEN <<Sign(x[1]) * Sign(y[1]), 0>>
    ELSE Norm(x[1] * y[2], x[2] * y[1])

\* Python float division raises ZeroDivisionError on a zero divisor
PyDivRaises(x, y) == IsFinite(y) /\ y[1] = 0

FLess(x, y) ==
    /\ ~IsNaN(x)
    /\ ~IsNaN(y)
    /\ IF IsFinite(x) /\ IsFinite(y) THEN x[1] * y[2] < y[1] * x[2]
       ELSE IF ~IsFinite(x) THEN x[1] < 0 /\ y # x
       ELSE y[1] > 0

RECURSIVE FSum(_)
FSum(s) == IF s = <<>> THEN R(0) ELSE FAdd(FSum(SubSeq(s, 1, Len(s) - 1)), s[Len(s)])

(* ---------------- inputs ---------------- *)
\* Close prices are positive; Volume is a count or missing (NaN)
Closes == {R(1), R(2)}

Volumes == {R(0), R(1), R(2), NaN}

\* a frame of bars in file order; Date is the bar's day number
MkFrame(n, cv) == [k \in 1..n |-> [Date |-> k, Close |-> cv[k][1], Volume |-> cv[k][2]]]

Frames == UNION {{MkFrame(n, cv) : cv \in [1..n -> Closes \X Volumes]} : n \in 0..MaxBars}

\* closes 100..104 with uniform volume 10
ScenarioFrame == [k \in 1..5 |-> [Date |-> k, Close |-> R(99 + k), Volume |-> R(10)]]

ScenarioOrder == [size |-> 1000, direction |-> "buy", num_slices |-> 5]

Orders ==
    [size : 0..MaxSize, direction : {"buy", "sell"}, num_slices : 0..(MaxBars + 1)]
        \cup {ScenarioOrder}

StartIdxs == 0..MaxBars

(* ---------------- state ---------------- *)
VARIABLES
    csv,         \* the rows of the file load_data reads; <<>> when the frame is not loaded
    df,          \* the frame passed to the call
    order,       \* the Order passed to the call
    start_idx,   \* the start index passed to the call
    policy,      \* "none", "twap" or "vwap": the function being executed
    pc,          \* "load", "load_raised", "idle", "loop", "returned" or "raised"
    i,           \* loop index
    slice_size,  \* execute_twap's local slice_size
    window_df,   \* execute_vwap's local copy of the window, with its added columns
    slices,      \* the local list of ExecutionSlice
    total_cost,  \* the local accumulator
    result,      \* <<>> or <<the ExecutionResult returned>>
    error,       \* "" or the exception the call raised
    warnings     \* the messages passed to logger.warning, in order

vars ==
    <<csv, df, order, start_idx, policy, pc, i, slice_size, window_df, slices,
      total_cost, result, error, warnings>>

inputs == <<csv, df, order, start_idx>>

Init ==
    /\ csv = <<>>
    /\ df \in Frames \cup {ScenarioFrame}
    /\ order \in Orders
    /\ start_idx \in StartIdxs
    /\ policy = "none"
    /\ pc = "idle"
    /\ i = 0
    /\ slice_size = R(0)
    /\ window_df = <<>>
    /\ slices = <<>>
    /\ total_cost = R(0)
    /\ result = <<>>
    /\ error = ""
    /\ warnings = <<>>

(* ---------------- the data model ---------------- *)
\* mutant of ExecutionSlice: the day is the 0-based loop index
ExecutionSliceZeroBased(day, date, size, price, cost) ==
    [day |-> day - 1, date |-> date, size |-> size, price |-> price, cost |-> cost]

ExecutionSlice(day, date, size, price, cost) ==
    [day |-> day, date |-> date, size |-> size, price |-> price, cost |-> cost]

ExecutionResult(s, tc, avg, bench, bps) ==
    [slices |-> s, total_cost |-> tc, avg_price |-> avg,
     benchmark_price |-> bench, slippage_bps |-> bps]

\* a call ends with an exception: nothing is returned
Raise(e) ==
    /\ pc' = "raised"
    /\ error' = e
    /\ result' = <<>>

Return(r) ==
    /\ pc' = "returned"
    /\ error' = ""
    /\ result' = <<r>>

\* logger.warning("Not enough data")
NotEnoughData == [msg |-> "Not enough data", count |-> 0]

\* logger.warning(f"Found {count} NaN volumes. Filling with 0.")
FoundNaN(count) == [msg |-> "Found NaN volumes. Filling with 0.", count |-> count]

CanCall == pc \in {"idle", "returned", "raised"}

\* mutant of NewSliceList: the list of the previous call is used again
NewSliceListReused(old) == old

\* slices = []: a new empty list, whatever list the previous call built
NewSliceList(old) == <<>>

\* slippage in basis points of avg against bench
\* mutant of SlippageBps: a percentage instead of basis points
SlippageBpsPercent(avg, bench) == FMul(NpDiv(FSub(avg, bench), bench), R(100))

SlippageBps(avg, bench) == FMul(NpDiv(FSub(avg, bench), bench), R(10000))

(* ---------------- execute_twap ---------------- *)
\* mutant of TwapSliceSize: the order is not divided among the slices
TwapSliceSizeWhole(o) == R(o.size)

\* mutant of TwapSliceSize: a sell order gets negative slices
TwapSliceSizeSigned(o) ==
    IF o.direction = "sell" THEN Norm(0 - o.size, o.num_slices)
    ELSE Norm(o.size, o.num_slices)

TwapSliceSize(o) == Norm(o.size, o.num_slices)

\* mutant of TwapSliceCost: the cost of a slice forgets its size
TwapSliceCostPriceOnly(price, size) == price

TwapSliceCost(price, size) == FMul(price, size)

TwapBenchmark(frame, s) == frame[s + 1].Close

\* lines 14-16: slice_size, slices, total_cost
CallTwap ==
    /\ CanCall
    /\ policy' = "twap"
    /\ i' = 0
    /\ slices' = NewSliceList(slices)
    /\ total_cost' = R(0)
    /\ window_df' = <<>>
    /\ warnings' = <<>>
    /\ IF order.num_slices = 0
       THEN /\ Raise("ZeroDivisionError")
            /\ slice_size' = R(0)
       ELSE /\ pc' = "loop"
            /\ error' = ""
            /\ result' = <<>>
            /\ slice_size' = TwapSliceSize(order)
    /\ UNCHANGED inputs

\* lines 18-38: one iteration of the loop
TwapStep ==
    /\ policy = "twap"
    /\ pc = "loop"
    /\ i < order.num_slices
    /\ LET day_idx == start_idx + i
       IN  IF day_idx >= Len(df)
           THEN \* the warning is logged, then df.iloc[day_idx] raises
                /\ warnings' = Append(warnings, NotEnoughData)
                /\ Raise("IndexError")
                /\ UNCHANGED <<i, slices, total_cost>>
           ELSE LET row == df[day_idx + 1]
                    price == row.Close
                    slice_cost == TwapSliceCost(price, slice_size)
                IN  /\ total_cost' = FAdd(total_cost, slice_cost)
                    /\ slices' = Append(slices,
                           ExecutionSlice(i + 1, row.Date, slice_size, price, slice_cost))
                    /\ i' = i + 1
                    /\ UNCHANGED <<pc, error, result, warnings>>
    /\ UNCHANGED <<inputs, policy, slice_size, window_df>>

\* lines 40-53: total_cost is a numpy.float64 here, so the divisions do not raise
TwapFinish ==
    /\ policy = "twap"
    /\ pc = "loop"
    /\ i >= order.num_slices
    /\ LET avg_price == NpDiv(total_cost, R(order.size))
           benchmark_price == TwapBenchmark(df, start_idx)
           slippage_bps == SlippageBps(avg_price, benchmark_price)
       IN  Return(ExecutionResult(slices, total_cost, avg_price, benchmark_price,
                                  slippage_bps))
    /\ UNCHANGED <<inputs, policy, i, slice_size, window_df, slices, total_cost, warnings>>

(* ---------------- execute_vwap ---------------- *)
Min(a, b) == IF a < b THEN a ELSE b

\* df.iloc[s:e]: the rows at positions s .. e-1 that exist (a slice never raises)
ILocSlice(frame, s, e) == SubSeq(frame, s + 1, Min(e, Len(frame)))

\* Series.fillna(0)
FillNa(v) == IF IsNaN(v) THEN R(0) ELSE v

NaNCount(w) == Cardinality({k \in 1..Len(w) : IsNaN(w[k].Volume)})

\* window_df["Volume"].sum()
TotalVolume(w) == FSum([k \in 1..Len(w) |-> w[k].Volume])

\* the volume_pct column of the row with volume v; total # 0 or n # 0
\* mutant of VolumePct: the volume is not divided by the window's total
VolumePctUnnormalised(v, total, n) == IF total = R(0) THEN Norm(1, n) ELSE v

VolumePct(v, total, n) == IF total = R(0) THEN Norm(1, n) ELSE NpDiv(v, total)

\* mutant of VwapSliceSize: the equal split of execute_twap
VwapSliceSizeEqualSplit(pct, o) == Norm(o.size, o.num_slices)

VwapSliceSize(pct, o) == FMul(pct, R(o.size))

VwapSliceCost(price, size) == FMul(price, size)

VwapBenchmark(w, s) == w[s + 1].Close

\* mutant of FrameAfterFill: the window is a view, the fill writes through to the frame
FrameAfterFillThroughView(frame, s, filled) ==
    [k \in 1..Len(frame) |->
        IF k > s /\ k <= s + Len(filled)
        THEN [frame[k] EXCEPT !.Volume = filled[k - s].Volume]
        ELSE frame[k]]

\* the caller's frame after the window's Volume was filled: the window is a
\* .copy(), so the frame keeps its rows and its missing volumes
FrameAfterFill(frame, s, filled) == frame

\* lines 15-37: the window, its volumes, the volume_pct and slice_size columns
CallVwap ==
    /\ CanCall
    /\ policy' = "vwap"
    /\ i' = 0
    /\ slices' = NewSliceList(slices)
    /\ total_cost' = R(0)
    /\ slice_size' = R(0)
    /\ LET end_idx == start_idx + order.num_slices
           copy == ILocSlice(df, start_idx, end_idx)
           hasNaN == NaNCount(copy) > 0
           filled == [k \in 1..Len(copy) |->
                         [copy[k] EXCEPT !.Volume = FillNa(copy[k].Volume)]]
           total_volume == TotalVolume(filled)
           w1 == IF end_idx > Len(df) THEN <<NotEnoughData>> ELSE <<>>
           w2 == IF hasNaN THEN <<FoundNaN(NaNCount(copy))>> ELSE <<>>
       IN  /\ warnings' = w1 \o w2
           /\ df' = FrameAfterFill(df, start_idx, filled)
           /\ IF total_volume = R(0) /\ Len(filled) = 0
              THEN \* 1.0 / len(window_df)
                   /\ Raise("ZeroDivisionError")
                   /\ window_df' = filled
              ELSE /\ pc' = "loop"
                   /\ error' = ""
                   /\ result' = <<>>
                   /\ window_df' =
                        [k \in 1..Len(filled) |->
                           LET pct == VolumePct(filled[k].Volume, total_volume, Len(filled))
                           IN  [Date |-> filled[k].Date,
                                Close |-> filled[k].Close,
                                Volume |-> filled[k].Volume,
                                volume_pct |-> pct,
                                slice_size |-> VwapSliceSize(pct, order)]]
    /\ UNCHANGED <<csv, order, start_idx>>

\* lines 39-49: one row of window_df.iterrows()
VwapStep ==
    /\ policy = "vwap"
    /\ pc = "loop"
    /\ i < Len(window_df)
    /\ LET row == window_df[i + 1]
           price == row.Close
           size == row.slice_size
           slice_cost == VwapSliceCost(price, size)
       IN  /\ total_cost' = FAdd(total_cost, slice_cost)
           /\ slices' = Append(slices, ExecutionSlice(i + 1, row.Date, size, price, slice_cost))
           /\ i' = i + 1
    /\ UNCHANGED <<inputs, policy, pc, slice_size, window_df, result, error, warnings>>

\* lines 51-63: total_cost is a Python float here, so a zero divisor raises
VwapFinish ==
    /\ policy = "vwap"
    /\ pc = "loop"
    /\ i >= Len(window_df)
    /\ IF PyDivRaises(total_cost, R(order.size))
       THEN Raise("ZeroDivisionError")
       ELSE IF start_idx >= Len(window_df)
       THEN \* window_df.iloc[start_idx]
            Raise("IndexError")
       ELSE LET avg_price == NpDiv(total_cost, R(order.size))
                benchmark_price == VwapBenchmark(window_df, start_idx)
            IN  IF PyDivRaises(FSub(avg_price, benchmark_price), benchmark_price)
                THEN Raise("ZeroDivisionError")
                ELSE Return(ExecutionResult(slices, total_cost, avg_price, benchmark_price,
                                SlippageBps(avg_price, benchmark_price)))
    /\ UNCHANGED <<inputs, policy, i, slice_size, window_df, slices, total_cost, warnings>>

(* ---------------- the calls as functions of their arguments ---------------- *)
\* what a call leaves behind: how it ended, its exception, its result
Outcome(p, e, r) == [pc |-> p, error |-> e, result |-> r]

\* execute_twap(frame, o, s) run to its end
TwapOutcome(frame, o, s) ==
    IF o.num_slices = 0 THEN Outcome("raised", "ZeroDivisionError", <<>>)
    ELSE IF s + o.num_slices > Len(frame) THEN Outcome("raised", "IndexError", <<>>)
    ELSE LET size == TwapSliceSize(o)
             sl == [k \in 1..o.num_slices |->
                      ExecutionSlice(k, frame[s + k].Date, size, frame[s + k].Close,
                                     TwapSliceCost(frame[s + k].Close, size))]
             cost == FSum([k \in 1..Len(sl) |-> sl[k].cost])
             avg == NpDiv(cost, R(o.size))
             bench == TwapBenchmark(frame, s)
         IN  Outcome("returned", "",
                     <<ExecutionResult(sl, cost, avg, bench, SlippageBps(avg, bench))>>)

\* execute_vwap(frame, o, s) run to its end
VwapOutcome(frame, o, s) ==
    LET copy == ILocSlice(frame, s, s + o.num_slices)
        filled == [k \in 1..Len(copy) |-> [copy[k] EXCEPT !.Volume = FillNa(copy[k].Volume)]]
        total == TotalVolume(filled)
        sl == [k \in 1..Len(filled) |->
                 LET size == VwapSliceSize(VolumePct(filled[k].Volume, total, Len(filled)), o)
                 IN  ExecutionSlice(k, filled[k].Date, size, filled[k].Close,
                                    VwapSliceCost(filled[k].Close, size))]
        cost == FSum([k \in 1..Len(sl) |-> sl[k].cost])
        avg == NpDiv(cost, R(o.size))
    IN  IF Len(filled) = 0 THEN Outcome("raised", "ZeroDivisionError", <<>>)
        ELSE IF PyDivRaises(cost, R(o.size)) THEN Outcome("raised", "ZeroDivisionError", <<>>)
        ELSE IF s >= Len(filled) THEN Outcome("raised", "IndexError", <<>>)
        ELSE IF PyDivRaises(FSub(avg, VwapBenchmark(filled, s)), VwapBenchmark(filled, s))
        THEN Outcome("raised", "ZeroDivisionError", <<>>)
        ELSE Outcome("returned", "",
                     <<ExecutionResult(sl, cost, avg, VwapBenchmark(filled, s),
                                       SlippageBps(avg, VwapBenchmark(filled, s)))>>)

(* ---------------- specification ---------------- *)
Next ==
    \/ CallTwap
    \/ TwapStep
    \/ TwapFinish
    \/ CallVwap
    \/ VwapStep
    \/ VwapFinish

Spec == Init /\ [][Next]_vars

(* ---------------- load_data ---------------- *)
\* a program that loads the file first: nothing is loaded yet
LoadInit ==
    /\ csv \in Frames \cup {ScenarioFrame}
    /\ df = <<>>
    /\ order \in Orders
    /\ start_idx \in StartIdxs
    /\ policy = "none"
    /\ pc = "load"
    /\ i = 0
    /\ slice_size = R(0)
    /\ window_df = <<>>
    /\ slices = <<>>
    /\ total_cost = R(0)
    /\ result = <<>>
    /\ error = ""
    /\ warnings = <<>>

\* df["Volume"].isna().any()
HasMissingVolume(rows) == \E k \in 1..Len(rows) : IsNaN(rows[k].Volume)

\* the exceptions Series.fillna() without a value raises, by pandas version
FillnaNoValueErrors == {"ValueError", "TypeError"}

\* lines 9-15: read_csv, then fillna() without a value on a Volume with NaN
LoadData ==
    /\ pc = "load"
    /\ IF HasMissingVolume(csv)
       THEN /\ pc' = "load_raised"
            /\ error' \in FillnaNoValueErrors
            /\ df' = df
       ELSE /\ pc' = "idle"
            /\ error' = ""
            /\ df' = csv
    /\ UNCHANGED <<csv, order, start_idx, policy, i, slice_size, window_df, slices,
                   total_cost, result, warnings>>

LoadNext ==
    \/ LoadData
    \/ Next

LoadSpec == LoadInit /\ [][LoadNext]_vars

(* ---------------- vocabulary of the properties ---------------- *)
\* the window start_idx .. start_idx + num_slices - 1 lies inside the frame
Sufficient == start_idx + order.num_slices <= Len(df)

ValidOrder == order.size > 0 /\ order.num_slices >= 1

Returned == pc = "returned"

Done == pc \in {"returned", "raised"}

\* the bar of the frame that day k (1-based) of the window trades on
BarOfDay(k) == df[start_idx + k]

\* the volume of day k with a missing volume read as 0
VolumeOfDay(k) == FillNa(BarOfDay(k).Volume)

WindowVolume == FSum([k \in 1..order.num_slices |-> VolumeOfDay(k)])

SizesOf(s) == [k \in 1..Len(s) |-> s[k].size]

CostsOf(s) == [k \in 1..Len(s) |-> s[k].cost]

(* ---------------- C1 ---------------- *)
\* C1: a call of either policy with a valid order and a sufficient window
\* returns a result with exactly order.num_slices slices.
C1_SliceCount ==
    (Done /\ ValidOrder /\ Sufficient)
        => (Returned /\ Len(result[1].slices) = order.num_slices)

(* ---------------- C2 ---------------- *)
\* C2: with a sufficient window, the benchmark_price of a returned result is
\* the close of the bar at index start_idx of the full frame, for both policies.
C2_BenchmarkIsStartClose ==
    (Returned /\ Sufficient) => result[1].benchmark_price = df[start_idx + 1].Close

(* ---------------- C3 ---------------- *)
\* C3: a call with start_idx + num_slices > len(data) ends in an error and
\* returns no result.
C3_InsufficientDataRaises ==
    (Done /\ ~Sufficient) => (pc = "raised" /\ result = <<>>)

(* ---------------- C4 ---------------- *)
\* C4: for an order of positive size and a sufficient window, the sizes of the
\* slices of a returned result add up to order.size, for both policies.
C4_SizeConserved ==
    (Returned /\ order.size > 0 /\ Sufficient)
        => FSum(SizesOf(result[1].slices)) = R(order.size)

\* execute_vwap returned slices of different sizes for a positive order
C4_Witness ==
    /\ Returned
    /\ policy = "vwap"
    /\ order.size > 0
    /\ Sufficient
    /\ \E j, k \in 1..Len(result[1].slices) :
           /\ result[1].slices[j].size # result[1].slices[k].size
           /\ result[1].slices[j].size # R(0)
           /\ result[1].slices[k].size # R(0)

(* ---------------- C5 ---------------- *)
\* C5: a call with order.size = 0 is rejected at entry: as soon as the call has
\* begun it has raised, no slice was computed and nothing is returned.
C5_ZeroSizeRejectedAtEntry ==
    (order.size = 0 /\ policy # "none")
        => (pc = "raised" /\ slices = <<>> /\ result = <<>>)

(* ---------------- C6 ---------------- *)
\* C6: in execute_vwap over a sufficient window of nonzero total volume, the
\* slice of day k has size order.size * (volume of day k / total volume of the
\* window), and a returned result holds exactly these slices.
C6_VwapProportional ==
    (policy = "vwap" /\ Sufficient /\ WindowVolume # R(0))
        => /\ \A k \in 1..Len(slices) :
                slices[k].size = FMul(R(order.size), NpDiv(VolumeOfDay(k), WindowVolume))
           /\ Returned => (result[1].slices = slices /\ Len(slices) = order.num_slices)

\* execute_vwap returned for a window whose first day has a third of the volume
C6_Witness ==
    /\ Returned
    /\ policy = "vwap"
    /\ Sufficient
    /\ order.size > 0
    /\ WindowVolume # R(0)
    /\ NpDiv(VolumeOfDay(1), WindowVolume) = <<1, 3>>
    /\ result[1].slices[1].size = <<order.size, 3>>

(* ---------------- C7 ---------------- *)
\* C7: execute_vwap over a sufficient window whose bars all have volume 0 ends
\* without error, and every slice has the size order.size / order.num_slices
\* that execute_twap gives its slices.
C7_ZeroVolumeFallback ==
    (/\ policy = "vwap"
     /\ Done
     /\ ValidOrder
     /\ Sufficient
     /\ \A k \in 1..order.num_slices : BarOfDay(k).Volume = R(0))
        => /\ Returned
           /\ Len(result[1].slices) = order.num_slices
           /\ \A k \in 1..Len(result[1].slices) :
                result[1].slices[k].size = TwapSliceSize(order)

(* ---------------- C8 ---------------- *)
\* C8: in execute_twap with a valid order and a sufficient window every slice
\* has size order.size / order.num_slices, whatever the closes and volumes, and
\* a returned result holds num_slices such slices.
C8_TwapUniform ==
    (policy = "twap" /\ ValidOrder /\ Sufficient)
        => /\ \A k \in 1..Len(slices) :
                slices[k].size = Norm(order.size, order.num_slices)
           /\ Returned => (result[1].slices = slices /\ Len(slices) = order.num_slices)

\* execute_twap returned over a window whose closes differ and whose volumes differ
C8_Witness ==
    /\ Returned
    /\ policy = "twap"
    /\ ValidOrder
    /\ Sufficient
    /\ order.num_slices >= 2
    /\ order.size % order.num_slices # 0
    /\ \E j, k \in 1..order.num_slices :
           /\ BarOfDay(j).Close # BarOfDay(k).Close
           /\ BarOfDay(j).Volume # BarOfDay(k).Volume

(* ---------------- C9 ---------------- *)
\* C9: in every returned result total_cost is the sum of the slices' costs and
\* the cost of each slice is its size times its price.
C9_CostConsistent ==
    Returned
        => LET r == result[1]
           IN  /\ r.total_cost = FSum(CostsOf(r.slices))
               /\ \A k \in 1..Len(r.slices) :
                    r.slices[k].cost = FMul(r.slices[k].size, r.slices[k].price)

\* a result of two or more slices with different nonzero costs
C9_Witness ==
    /\ Returned
    /\ Len(result[1].slices) >= 2
    /\ \A k \in 1..Len(result[1].slices) : result[1].slices[k].cost # R(0)
    /\ result[1].slices[1].cost # result[1].slices[2].cost
    /\ result[1].slices[1].cost # result[1].slices[1].price

(* ---------------- C10 ---------------- *)
\* the result of the scenario: closes 100..104, Order(1000, buy, 5), start_idx 0
ScenarioResult ==
    [slices |-> [k \in 1..5 |->
                    [day |-> k, date |-> k, size |-> R(200), price |-> R(99 + k),
                     cost |-> R(200 * (99 + k))]],
     total_cost |-> R(102000),
     avg_price |-> R(102),
     benchmark_price |-> R(100),
     slippage_bps |-> R(200)]

\* C10: in every returned result avg_price = total_cost / order.size and
\* slippage_bps = (avg_price - benchmark_price) / benchmark_price * 10000, so
\* slippage_bps > 0 exactly when avg_price > benchmark_price; for the closes
\* 100..104, Order(1000, buy, 5) and start_idx 0, execute_twap returns 5 slices
\* of size 200 with costs 20000, 20200, 20400, 20600, 20800, total_cost 102000,
\* avg_price 102, benchmark_price 100 and slippage_bps 200.
C10_AvgPriceAndSlippage ==
    Returned
        => LET r == result[1]
           IN  /\ r.avg_price = NpDiv(r.total_cost, R(order.size))
               /\ r.slippage_bps =
                    FMul(NpDiv(FSub(r.avg_price, r.benchmark_price), r.benchmark_price),
                         R(10000))
               /\ FLess(R(0), r.slippage_bps) <=> FLess(r.benchmark_price, r.avg_price)
               /\ (/\ policy = "twap"
                   /\ df = ScenarioFrame
                   /\ order = ScenarioOrder
                   /\ start_idx = 0) => r = ScenarioResult

\* execute_twap returned for the scenario, with a positive slippage
C10_Witness ==
    /\ Returned
    /\ policy = "twap"
    /\ df = ScenarioFrame
    /\ order = ScenarioOrder
    /\ start_idx = 0
    /\ FLess(R(0), result[1].slippage_bps)

(* ---------------- C11 ---------------- *)
\* all bars of the window have the same nonzero volume
UniformVolume ==
    /\ \A k \in 1..order.num_slices : ~IsNaN(BarOfDay(k).Volume)
    /\ \A k \in 1..order.num_slices : BarOfDay(k).Volume # R(0)
    /\ \A j, k \in 1..order.num_slices : BarOfDay(j).Volume = BarOfDay(k).Volume

\* C11: execute_vwap over a sufficient window whose bars all have the same
\* nonzero volume returns the slice sizes and slice costs, and so the
\* total_cost and avg_price, that execute_twap returns for the same data,
\* order and start_idx.
C11_UniformVolumeAsTwap ==
    (policy = "vwap" /\ Done /\ ValidOrder /\ Sufficient /\ UniformVolume)
        => /\ Returned
           /\ Len(result[1].slices) = order.num_slices
           /\ \A k \in 1..Len(result[1].slices) :
                /\ result[1].slices[k].size = TwapSliceSize(order)
                /\ result[1].slices[k].cost =
                     TwapSliceCost(BarOfDay(k).Close, TwapSliceSize(order))
           /\ result[1].total_cost =
                FSum([k \in 1..order.num_slices |->
                        TwapSliceCost(BarOfDay(k).Close, TwapSliceSize(order))])
           /\ result[1].avg_price = NpDiv(result[1].total_cost, R(order.size))

\* the step-by-step calls end as the functions above say
OutcomeAgrees ==
    Done => Outcome(pc, error, result) =
              IF policy = "twap" THEN TwapOutcome(df, order, start_idx)
              ELSE VwapOutcome(df, order, start_idx)

(* ---------------- C12 ---------------- *)
\* the frame with every missing volume replaced by 0
ZeroFilled(frame) ==
    [k \in 1..Len(frame) |->
        [frame[k] EXCEPT !.Volume = IF IsNaN(frame[k].Volume) THEN R(0) ELSE frame[k].Volume]]

MissingInWindow == \E k \in 1..order.num_slices : IsNaN(BarOfDay(k).Volume)

\* the NaN bars get size 0 when the window has volume, and the call ends as the
\* same call on the zero-filled frame ends
MissingVolumeReadAsZero ==
    /\ WindowVolume # R(0) =>
          \A k \in 1..Len(slices) : IsNaN(BarOfDay(k).Volume) => slices[k].size = R(0)
    /\ Outcome(pc, error, result) = VwapOutcome(ZeroFilled(df), order, start_idx)

\* C12: a call of execute_vwap whose window has a bar of missing (NaN) volume
\* raises no error, gives that bar's slice size 0 when another bar of the
\* window has positive volume, and returns the result of the same call on the
\* data with the missing volumes replaced by 0.
C12_MissingVolumeAsZero ==
    (policy = "vwap" /\ Done /\ ValidOrder /\ Sufficient /\ MissingInWindow)
        => (Returned /\ MissingVolumeReadAsZero)

(* ---------------- C13 ---------------- *)
\* C13: load_data on a file in which some rows have a missing Volume ends
\* without error and returns all rows in file order with each missing Volume
\* replaced by 0.
C13_LoadFillsMissingVolume ==
    (pc # "load" /\ HasMissingVolume(csv))
        => (pc # "load_raised" /\ error = "" /\ df = ZeroFilled(csv))

(* ---------------- C14 ---------------- *)
\* C14: no step of execute_twap or execute_vwap changes the frame (its rows,
\* their volumes, their columns), the order or start_idx, whether the call
\* returns or raises; and a call that returns hands back exactly the slices it
\* built itself, none of them from a previous call.
C14_InputsUnchangedFreshResult ==
    [][/\ df' = df
       /\ order' = order
       /\ start_idx' = start_idx
       /\ (CanCall /\ pc' # pc) => (slices' = <<>> /\ result' = <<>>)
       /\ pc' = "returned" =>
             (result'[1].slices = slices' /\ Len(result'[1].slices) = i')]_vars

\* execute_vwap returned after filling a missing volume of its window, and the
\* frame still has the volume missing
C14_Witness ==
    /\ Returned
    /\ policy = "vwap"
    /\ \E k \in 1..Len(window_df) :
           /\ IsNaN(df[start_idx + k].Volume)
           /\ window_df[k].Volume = R(0)
    /\ \E k \in 1..Len(warnings) : warnings[k].msg = FoundNaN(0).msg

(* ---------------- C15 ---------------- *)
\* C15: in both policies the k-th slice built has day k and the Date and Close
\* of the bar at index start_idx + k - 1 of the frame, so the slices follow the
\* bars in order, day 1 first, without gaps or repeats; a returned result holds
\* exactly these slices.
C15_SlicesFollowBars ==
    /\ \A k \in 1..Len(slices) :
          /\ slices[k].day = k
          /\ start_idx + k <= Len(df)
          /\ slices[k].date = BarOfDay(k).Date
          /\ slices[k].price = BarOfDay(k).Close
    /\ Returned => result[1].slices = slices

\* a result of two or more slices that starts after the first bar of the frame
C15_Witness ==
    /\ Returned
    /\ start_idx >= 1
    /\ Len(result[1].slices) >= 2
    /\ result[1].slices[2].date = start_idx + 2
    /\ result[1].slices[1].price # result[1].slices[2].price

(* ---------------- C16 ---------------- *)
\* the order with the other direction, all else equal
OtherDirection(o) ==
    [o EXCEPT !.direction = IF o.direction = "buy" THEN "sell" ELSE "buy"]

\* C16: a call ends exactly as the same call for the order of the other
\* direction ends: both raise, or both return results with the same slices,
\* total_cost, avg_price, benchmark_price and slippage_bps.
C16_DirectionIrrelevant ==
    Done =>
        Outcome(pc, error, result) =
            IF policy = "twap" THEN TwapOutcome(df, OtherDirection(order), start_idx)
            ELSE VwapOutcome(df, OtherDirection(order), start_idx)

\* a sell order was executed and its result has positive sizes and cost
C16_Witness ==
    /\ Returned
    /\ order.direction = "sell"
    /\ order.size > 0
    /\ Len(result[1].slices) >= 2
    /\ FLess(R(0), result[1].slices[1].size)
    /\ FLess(R(0), result[1].total_cost)

(* ---------------- C17 ---------------- *)
\* C17: for an order of positive size and a sufficient window, the avg_price of
\* a returned result of either policy is at least the smallest and at most the
\* largest Close of the window's bars; the closes being positive, total_cost
\* is positive.
C17_AvgPriceWithinCloses ==
    (Returned /\ order.size > 0 /\ Sufficient)
        => /\ \E k \in 1..order.num_slices :
                ~FLess(result[1].avg_price, BarOfDay(k).Close)
           /\ \E k \in 1..order.num_slices :
                ~FLess(BarOfDay(k).Close, result[1].avg_price)
           /\ ~IsNaN(result[1].avg_price)
           /\ FLess(R(0), result[1].total_cost)

\* execute_vwap returned an avg_price strictly between two closes of its window
C17_Witness ==
    /\ Returned
    /\ policy = "vwap"
    /\ order.size > 0
    /\ Sufficient
    /\ \E j, k \in 1..order.num_slices :
           /\ FLess(BarOfDay(j).Close, result[1].avg_price)
           /\ FLess(result[1].avg_price, BarOfDay(k).Close)
    /\ \E j, k \in 1..order.num_slices : VolumeOfDay(j) # VolumeOfDay(k)

====
